---------------------------- MODULE Spec2Model ----------------------------
(***************************************************************************)
(* Gestor de Gastos (src/app.py): the credential store (usuarios.json),    *)
(* the per-user expense ledger GestorGastos (gastos_<usuario>.json) and    *)
(* the two Streamlit handlers that mutate a ledger (the "nuevo_gasto"      *)
(* form and the "Eliminar i" buttons of the listing).                      *)
(*                                                                         *)
(* Amounts are Python floats.  A float is modelled as a record             *)
(*   [k |-> "fin", v |-> n]   the finite value n/100                       *)
(*   [k |-> "nan", v |-> 0]   float('nan')                                 *)
(*   [k |-> "inf", v |-> 0]   float('inf')                                 *)
(* so that the comparisons and sums of the code keep the IEEE behaviour    *)
(* of the non-finite values.                                               *)
(***************************************************************************)
EXTENDS Integers, Sequences, FiniteSets, Bags, TLC

\* ------------------------------------------------------------------ bounds
\* Longest ledger the model builds (the code enforces no upper bound):
\* with one instance alive, and with two instances alive at once.
MaxLen == 3
MaxLenConcurrente == 1

\* ----------------------------------------------------------- input domains
Users == {"alice", "bob"}
Passwords == {"pw1", "pw2", "PW1"}
Descripciones == {"coffee"}
\* Two of the five options of the "Categoría" selectbox.
Categorias == {"Comida", "Otros"}
\* datetime.now(), to the second: two adds may fall in the same second.
Fechas == {1, 2}
\* Texts typed into the "Monto" input.
MontoTextos == {"abc", "-1.5", "0", "3.50", "nan"}
Instancias == {1, 2}
NoUser == "<none>"

Fin(n) == [k |-> "fin", v |-> n]
NaN == [k |-> "nan", v |-> 0]
Inf == [k |-> "inf", v |-> 0]
\* Amounts handed to agregar_gasto directly (Gasto accepts any float).
Montos == {Fin(350)}

VARIABLES
    usuariosJson,   \* the file usuarios.json
    archivos,       \* the files gastos_<usuario>.json, by file name
    usuario,        \* per GestorGastos instance: its user, NoUser when not constructed
    gastos,         \* per instance: self.gastos, a sequence of Gasto objects
    vivos,          \* history: per instance, the bag of amounts loaded or added and not removed
    primeraClave,   \* history: per user, the password of the first registrar_usuario call
    last            \* history: the last call, its arguments and its outcome

vars == <<usuariosJson, archivos, usuario, gastos, vivos, primeraClave, last>>

\* ---------------------------------------------------------------- floats
\* m <= 0 on floats: every comparison with nan is False.
FloatLeq0(m) == m.k = "fin" /\ m.v <= 0

\* a + b on floats (only +inf occurs): nan absorbs, then inf.
FloatAdd(a, b) ==
    IF a.k = "nan" \/ b.k = "nan" THEN NaN
    ELSE IF a.k = "inf" \/ b.k = "inf" THEN Inf
    ELSE Fin(a.v + b.v)

\* float(monto) of the form handler: ok = FALSE is ValueError.
ParseFloat(texto) ==
    CASE texto = "-1.5" -> [ok |-> TRUE, val |-> Fin(-150)]
      [] texto = "0"    -> [ok |-> TRUE, val |-> Fin(0)]
      [] texto = "3.50" -> [ok |-> TRUE, val |-> Fin(350)]
      [] texto = "nan"  -> [ok |-> TRUE, val |-> NaN]
      [] texto = "inf"  -> [ok |-> TRUE, val |-> Inf]
      [] OTHER          -> [ok |-> FALSE, val |-> Fin(0)]

\* json.dump of a float: a number literal, or the tokens NaN and Infinity.
JsonNum(m) ==
    CASE m.k = "nan" -> [t |-> "NaN", n |-> 0]
      [] m.k = "inf" -> [t |-> "Infinity", n |-> 0]
      [] OTHER       -> [t |-> "number", n |-> m.v]

\* json.load of a number token.
JsonNumLoad(j) ==
    CASE j.t = "NaN"      -> NaN
      [] j.t = "Infinity" -> Inf
      [] OTHER            -> Fin(j.n)

\* ------------------------------------------------------- credential store
UsuariosMissing == [kind |-> "missing", m |-> <<>>]

\* cargar_usuarios: the mapping of the file, {} when the file does not exist.
cargar_usuarios(f) == IF f.kind = "map" THEN f.m ELSE <<>>

\* guardar_usuarios: the file rewritten wholesale with the mapping.
guardar_usuarios(m) == [kind |-> "map", m |-> m]

\* Mutant: registration without the "usuario in usuarios" test.
registrar_usuario_sobrescribe(f, u, p) ==
    LET usuarios == cargar_usuarios(f)
        nuevo == [x \in (DOMAIN usuarios) \cup {u} |-> IF x = u THEN p ELSE usuarios[x]]
    IN [ret |-> TRUE, file |-> guardar_usuarios(nuevo), wrote |-> TRUE]

\* Mutant: the duplicate is reported, but only after the mapping was saved.
registrar_usuario_guarda_antes(f, u, p) ==
    LET usuarios == cargar_usuarios(f)
        nuevo == [x \in (DOMAIN usuarios) \cup {u} |-> IF x = u THEN p ELSE usuarios[x]]
    IN [ret |-> u \notin DOMAIN usuarios, file |-> guardar_usuarios(nuevo), wrote |-> TRUE]

\* registrar_usuario: ret is the returned boolean, file the file afterwards,
\* wrote whether guardar_usuarios ran.
registrar_usuario(f, u, p) ==
    LET usuarios == cargar_usuarios(f)
    IN IF u \in DOMAIN usuarios
       THEN [ret |-> FALSE, file |-> f, wrote |-> FALSE]
       ELSE LET nuevo == [x \in (DOMAIN usuarios) \cup {u} |->
                             IF x = u THEN p ELSE usuarios[x]]
            IN [ret |-> TRUE, file |-> guardar_usuarios(nuevo), wrote |-> TRUE]

\* validar_usuario: usuarios.get(usuario) == password (None for an absent key).
validar_usuario(f, u, p) ==
    LET usuarios == cargar_usuarios(f)
    IN u \in DOMAIN usuarios /\ usuarios[u] = p


\* ------------------------------------------------------------------ Gasto
\* fecha = None (or any falsy value) of Gasto.__init__.
SinFecha == 0

\* Gasto.__init__: the four attributes; ahora is datetime.now().
Gasto(descripcion, monto, categoria, fecha, ahora) ==
    [descripcion |-> descripcion, monto |-> monto, categoria |-> categoria,
     fecha |-> IF fecha # SinFecha THEN fecha ELSE ahora]

\* The elements of a list are pairwise distinct objects (every Gasto(...) call
\* allocates one, and only append and pop change the list): the identity of
\* an element is written as its position in the list.
Objetos(gs) == [j \in 1..Len(gs) |-> [id |-> j, attrs |-> gs[j]]]

\* Mutant: equality by field values, as a value-type __eq__ would give.
GastoEqCampos(a, b) == a.attrs = b.attrs

\* a == b on Gasto objects: the class defines no __eq__, so object identity.
GastoEq(a, b) == a.id = b.id

\* Mutant: descripcion and categoria written under each other's key.
to_dict_cruzado(g) ==
    [descripcion |-> g.categoria, monto |-> g.monto,
     categoria |-> g.descripcion, fecha |-> g.fecha]

\* Gasto.to_dict
to_dict(g) ==
    [descripcion |-> g.descripcion, monto |-> g.monto,
     categoria |-> g.categoria, fecha |-> g.fecha]

\* Gasto.from_dict: a new object from the four keys; ahora is datetime.now().
from_dict(data, ahora) ==
    Gasto(data.descripcion, data.monto, data.categoria, data.fecha, ahora)

\* json.dump / json.load of one record object.
JsonDumpDict(d) == [d EXCEPT !.monto = JsonNum(d.monto)]
JsonLoadDict(j) == [j EXCEPT !.monto = JsonNumLoad(j.monto)]

\* ----------------------------------------------------------- GestorGastos
\* self.archivo_datos = f"gastos_{usuario}.json"
archivo_datos(u) == <<"gastos_", u, ".json">>
Archivos == {archivo_datos(u) : u \in Users}

\* A file that does not exist; a file json.load rejects; a file holding JSON
\* that is not a sequence of objects with the four keys.
ArchivoMissing == [kind |-> "missing", datos |-> <<>>]
ArchivoIlegible == [kind |-> "unparseable", datos |-> <<>>]
ArchivoOtroJson == [kind |-> "other_json", datos |-> <<>>]

\* Mutant: cargar_datos without the try/except.
cargar_datos_sin_try(f) ==
    IF f.kind = "records"
    THEN [gastos |-> [j \in 1..Len(f.datos) |-> from_dict(JsonLoadDict(f.datos[j]), SinFecha)],
          raised |-> FALSE]
    ELSE [gastos |-> <<>>, raised |-> f.kind # "missing"]

\* GestorGastos.cargar_datos on self.gastos = []: gastos is self.gastos
\* afterwards, raised whether an exception leaves the method.
cargar_datos(f) ==
    IF f.kind = "missing"
    THEN [gastos |-> <<>>, raised |-> FALSE]
    ELSE IF f.kind = "records"
         THEN [gastos |-> [j \in 1..Len(f.datos) |->
                              from_dict(JsonLoadDict(f.datos[j]), SinFecha)],
               raised |-> FALSE]
         ELSE [gastos |-> <<>>, raised |-> FALSE]

\* Mutant: the file opened for appending, the old records kept.
guardar_datos_anexa(previo, gs) ==
    [kind |-> "records",
     datos |-> previo.datos \o [j \in 1..Len(gs) |-> JsonDumpDict(to_dict(gs[j]))]]

\* GestorGastos.guardar_datos: open(..., 'w') truncates whatever the file
\* held (previo) and the whole of self.gastos is dumped.
guardar_datos(previo, gs) ==
    [kind |-> "records",
     datos |-> [j \in 1..Len(gs) |-> JsonDumpDict(to_dict(gs[j]))]]

\* GestorGastos.agregar_gasto; ahora is datetime.now().
agregar_gasto(gs, f, descripcion, monto, categoria, ahora) ==
    LET nuevos == Append(gs, Gasto(descripcion, monto, categoria, SinFecha, ahora))
    IN [gastos |-> nuevos, file |-> guardar_datos(f, nuevos), wrote |-> TRUE]

\* list.pop(i) with a 0-based index: a negative index counts from the end,
\* ok = FALSE is IndexError.
ListPop(s, i) ==
    LET j == IF i < 0 THEN i + Len(s) ELSE i
    IN IF 0 <= j /\ j < Len(s)
       THEN [ok |-> TRUE,
             list |-> [x \in 1..(Len(s) - 1) |-> IF x <= j THEN s[x] ELSE s[x + 1]]]
       ELSE [ok |-> FALSE, list |-> s]

\* Mutant: the lower bound of the index test dropped.
eliminar_gasto_sin_cota(gs, f, indice) ==
    IF indice < Len(gs)
    THEN LET p == ListPop(gs, indice)
         IN IF p.ok
            THEN [gastos |-> p.list, file |-> guardar_datos(f, p.list),
                  wrote |-> TRUE, raised |-> FALSE]
            ELSE [gastos |-> gs, file |-> f, wrote |-> FALSE, raised |-> TRUE]
    ELSE [gastos |-> gs, file |-> f, wrote |-> FALSE, raised |-> FALSE]

\* Mutant: the record after the indexed one is popped.
eliminar_gasto_siguiente(gs, f, indice) ==
    IF 0 <= indice /\ indice < Len(gs)
    THEN LET p == ListPop(gs, IF indice + 1 < Len(gs) THEN indice + 1 ELSE indice)
         IN [gastos |-> p.list, file |-> guardar_datos(f, p.list),
             wrote |-> TRUE, raised |-> FALSE]
    ELSE [gastos |-> gs, file |-> f, wrote |-> FALSE, raised |-> FALSE]

\* GestorGastos.eliminar_gasto
eliminar_gasto(gs, f, indice) ==
    IF 0 <= indice /\ indice < Len(gs)
    THEN LET p == ListPop(gs, indice)
         IN IF p.ok
            THEN [gastos |-> p.list, file |-> guardar_datos(f, p.list),
                  wrote |-> TRUE, raised |-> FALSE]
            ELSE [gastos |-> gs, file |-> f, wrote |-> FALSE, raised |-> TRUE]
    ELSE [gastos |-> gs, file |-> f, wrote |-> FALSE, raised |-> FALSE]

\* Position of the categories in Python's string order.
CatOrden(c) ==
    CASE c = "Comida"     -> 1
      [] c = "Educación"  -> 2
      [] c = "Otros"      -> 3
      [] c = "Salud"      -> 4
      [] OTHER            -> 5

RECURSIVE Sorted(_)
Sorted(S) ==
    IF S = {} THEN <<>>
    ELSE LET c == CHOOSE x \in S : \A y \in S : CatOrden(x) <= CatOrden(y)
         IN <<c>> \o Sorted(S \ {c})

\* GestorGastos.obtener_categorias
obtener_categorias(gs) == Sorted({gs[j].categoria : j \in 1..Len(gs)})

RECURSIVE SumDesde(_, _, _)
SumDesde(acc, gs, j) ==
    IF j > Len(gs) THEN acc ELSE SumDesde(FloatAdd(acc, gs[j].monto), gs, j + 1)

\* Mutant: the first record left out of the sum.
total_sin_primero(gs) == SumDesde(Fin(0), gs, 2)

\* GestorGastos.total: sum() starts from 0 and adds left to right.
total(gs) == SumDesde(Fin(0), gs, 1)


\* --------------------------------------------------------- Streamlit glue
\* The "nuevo_gasto" form on submit: float(monto), the m <= 0 test, then
\* gestor.agregar_gasto.  msg is the message shown.
nuevo_gasto(gs, f, desc, texto, cat, ahora) ==
    LET pf == ParseFloat(texto)
    IN IF ~pf.ok
       THEN [gastos |-> gs, file |-> f, wrote |-> FALSE, msg |-> "Monto inválido"]
       ELSE IF FloatLeq0(pf.val)
            THEN [gastos |-> gs, file |-> f, wrote |-> FALSE,
                  msg |-> "Monto debe ser mayor a 0"]
            ELSE LET r == agregar_gasto(gs, f, desc, pf.val, cat, ahora)
                 IN [gastos |-> r.gastos, file |-> r.file, wrote |-> r.wrote,
                     msg |-> "Gasto agregado"]

\* The options of the "Filtrar por categoría" selectbox.
FiltroOpciones(gs) ==
    {"Todas"} \cup {obtener_categorias(gs)[j] : j \in 1..Len(obtener_categorias(gs))}

\* mostrar: the list itself for "Todas", else a new list of the objects of
\* the category.  objs is gestor.gastos as objects.
mostrar(objs, filtro_cat) ==
    IF filtro_cat = "Todas" THEN objs
    ELSE SelectSeq(objs, LAMBDA g : g.attrs.categoria = filtro_cat)

\* list.index(x), 0-based: the first position whose element == x.
ListIndex(lst, x) ==
    (CHOOSE j \in 1..Len(lst) :
        /\ GastoEq(lst[j], x)
        /\ \A h \in 1..(j - 1) : ~GastoEq(lst[h], x)) - 1

\* The "Eliminar i" button of the listing: real_index, then eliminar_gasto.
boton_eliminar(gs, f, filtro_cat, i) ==
    LET real_index == ListIndex(Objetos(gs), mostrar(Objetos(gs), filtro_cat)[i + 1])
    IN eliminar_gasto(gs, f, real_index)

\* ------------------------------------------------------- history variable
NoCall ==
    [op |-> "none", inst |-> 0, usr |-> NoUser, pwd |-> "", idx |-> 0, n |-> 0,
     texto |-> "", filtro |-> "", ok |-> FALSE, tot |-> Fin(0),
     wrote |-> FALSE, raised |-> FALSE, perdio |-> FALSE]

\* A write by an instance whose list is gs drops a record of the file f that
\* the instance does not hold: one another instance persisted after this one
\* loaded.
Perdio(f, gs, wrote) ==
    wrote /\ \E j \in 1..Len(f.datos) :
                 \A h \in 1..Len(gs) : JsonLoadDict(f.datos[j]) # to_dict(gs[h])

RECURSIVE BagDeMontos(_, _)
\* The bag of the amounts of the records j.. of a persisted sequence.
BagDeMontos(datos, j) ==
    IF j > Len(datos) THEN EmptyBag
    ELSE SetToBag({JsonNumLoad(datos[j].monto)}) (+) BagDeMontos(datos, j + 1)

\* ----------------------------------------------------------------- actions
\* registrar_usuario(u, p), as the "Registrar" button calls it.
Registrar(u, p) ==
    LET r == registrar_usuario(usuariosJson, u, p)
    IN /\ usuariosJson' = r.file
       /\ primeraClave' = IF primeraClave[u] = ""
                          THEN [primeraClave EXCEPT ![u] = p]
                          ELSE primeraClave
       /\ last' = [NoCall EXCEPT !.op = "registrar", !.usr = u, !.pwd = p,
                                 !.ok = r.ret, !.wrote = r.wrote]
       /\ UNCHANGED <<archivos, usuario, gastos, vivos>>

\* validar_usuario(u, p), as the "Ingresar" button calls it.
Validar(u, p) ==
    /\ last' = [NoCall EXCEPT !.op = "validar", !.usr = u, !.pwd = p,
                              !.ok = validar_usuario(usuariosJson, u, p)]
    /\ UNCHANGED <<usuariosJson, archivos, usuario, gastos, vivos, primeraClave>>

\* gestor = GestorGastos(u)
Construir(i, u) ==
    LET f == archivos[archivo_datos(u)]
        r == cargar_datos(f)
    IN /\ usuario[i] = NoUser
       /\ usuario' = [usuario EXCEPT ![i] = IF r.raised THEN NoUser ELSE u]
       /\ gastos' = [gastos EXCEPT ![i] = r.gastos]
       /\ vivos' = [vivos EXCEPT ![i] =
                       IF f.kind = "records" THEN BagDeMontos(f.datos, 1) ELSE EmptyBag]
       /\ last' = [NoCall EXCEPT !.op = "construir", !.inst = i, !.usr = u,
                                 !.raised = r.raised]
       /\ UNCHANGED <<usuariosJson, archivos, primeraClave>>

\* The instance goes out of scope (the end of a script run).
Descartar(i) ==
    /\ usuario[i] # NoUser
    /\ usuario' = [usuario EXCEPT ![i] = NoUser]
    /\ gastos' = [gastos EXCEPT ![i] = <<>>]
    /\ vivos' = [vivos EXCEPT ![i] = EmptyBag]
    /\ last' = [NoCall EXCEPT !.op = "descartar", !.inst = i]
    /\ UNCHANGED <<usuariosJson, archivos, primeraClave>>

\* gestor.agregar_gasto(desc, monto, cat)
Agregar(i, desc, monto, cat, ahora) ==
    LET a == archivo_datos(usuario[i])
        r == agregar_gasto(gastos[i], archivos[a], desc, monto, cat, ahora)
    IN /\ usuario[i] # NoUser
       /\ gastos' = [gastos EXCEPT ![i] = r.gastos]
       /\ archivos' = [archivos EXCEPT ![a] = r.file]
       /\ vivos' = [vivos EXCEPT ![i] = @ (+) SetToBag({monto})]
       /\ last' = [NoCall EXCEPT !.op = "agregar", !.inst = i, !.n = Len(gastos[i]),
                                 !.wrote = r.wrote,
                                 !.perdio = Perdio(archivos[a], gastos[i], r.wrote)]
       /\ UNCHANGED <<usuariosJson, usuario, primeraClave>>

\* gestor.eliminar_gasto(indice)
Eliminar(i, indice) ==
    LET a == archivo_datos(usuario[i])
        r == eliminar_gasto(gastos[i], archivos[a], indice)
    IN /\ usuario[i] # NoUser
       /\ gastos' = [gastos EXCEPT ![i] = r.gastos]
       /\ archivos' = [archivos EXCEPT ![a] = r.file]
       /\ vivos' = [vivos EXCEPT ![i] =
                       IF 0 <= indice /\ indice < Len(gastos[i])
                       THEN @ (-) SetToBag({gastos[i][indice + 1].monto})
                       ELSE @]
       /\ last' = [NoCall EXCEPT !.op = "eliminar", !.inst = i, !.idx = indice,
                                 !.n = Len(gastos[i]), !.wrote = r.wrote,
                                 !.raised = r.raised,
                                 !.perdio = Perdio(archivos[a], gastos[i], r.wrote)]
       /\ UNCHANGED <<usuariosJson, usuario, primeraClave>>

\* gestor.total()
Total(i) ==
    /\ usuario[i] # NoUser
    /\ last' = [NoCall EXCEPT !.op = "total", !.inst = i, !.n = Len(gastos[i]),
                              !.tot = total(gastos[i])]
    /\ UNCHANGED <<usuariosJson, archivos, usuario, gastos, vivos, primeraClave>>

\* The form "nuevo_gasto" is submitted with the text texto as the amount.
EnviarFormulario(i, desc, texto, cat, ahora) ==
    LET a == archivo_datos(usuario[i])
        r == nuevo_gasto(gastos[i], archivos[a], desc, texto, cat, ahora)
    IN /\ usuario[i] # NoUser
       /\ gastos' = [gastos EXCEPT ![i] = r.gastos]
       /\ archivos' = [archivos EXCEPT ![a] = r.file]
       /\ vivos' = [vivos EXCEPT ![i] =
                       IF r.wrote THEN @ (+) SetToBag({ParseFloat(texto).val}) ELSE @]
       /\ last' = [NoCall EXCEPT !.op = "formulario", !.inst = i, !.texto = texto,
                                 !.n = Len(gastos[i]), !.wrote = r.wrote,
                                 !.perdio = Perdio(archivos[a], gastos[i], r.wrote)]
       /\ UNCHANGED <<usuariosJson, usuario, primeraClave>>

\* The button "Eliminar fila" of the listing filtered by filtro_cat is pressed.
PulsarEliminar(i, filtro_cat, fila) ==
    LET a == archivo_datos(usuario[i])
        r == boton_eliminar(gastos[i], archivos[a], filtro_cat, fila)
    IN /\ usuario[i] # NoUser
       /\ filtro_cat \in FiltroOpciones(gastos[i])
       /\ fila \in 0..(Len(mostrar(Objetos(gastos[i]), filtro_cat)) - 1)
       /\ gastos' = [gastos EXCEPT ![i] = r.gastos]
       /\ archivos' = [archivos EXCEPT ![a] = r.file]
       /\ vivos' = [vivos EXCEPT ![i] =
                       @ (-) SetToBag({mostrar(Objetos(gastos[i]), filtro_cat)[fila + 1]
                                           .attrs.monto})]
       /\ last' = [NoCall EXCEPT !.op = "boton", !.inst = i, !.idx = fila,
                                 !.filtro = filtro_cat, !.n = Len(gastos[i]),
                                 !.wrote = r.wrote, !.raised = r.raised,
                                 !.perdio = Perdio(archivos[a], gastos[i], r.wrote)]
       /\ UNCHANGED <<usuariosJson, usuario, primeraClave>>

\* ---------------------------------------------------------- specifications
InitComun ==
    /\ usuario = [i \in Instancias |-> NoUser]
    /\ gastos = [i \in Instancias |-> <<>>]
    /\ vivos = [i \in Instancias |-> EmptyBag]
    /\ primeraClave = [u \in Users |-> ""]
    /\ last = NoCall

\* The credential store starts empty: no usuarios.json, or one holding {}.
InitUsuarios ==
    /\ InitComun
    /\ usuariosJson \in {UsuariosMissing, guardar_usuarios(<<>>)}
    /\ archivos = [a \in Archivos |-> ArchivoMissing]

NextUsuarios ==
    \E u \in Users, p \in Passwords : Registrar(u, p) \/ Validar(u, p)

SpecUsuarios == InitUsuarios /\ [][NextUsuarios]_vars

\* The ledger files of the users in U are absent or unreadable at the start.
InitLedger(U) ==
    /\ InitComun
    /\ usuariosJson = UsuariosMissing
    /\ archivos \in [Archivos -> {ArchivoMissing, ArchivoIlegible, ArchivoOtroJson}]
    /\ \A u \in Users \ U : archivos[archivo_datos(u)] = ArchivoMissing

\* One step of instance i, for users U, ledgers of at most L records, amounts M
\* passed to agregar_gasto, texts X typed as amount, categories C.
Paso(i, U, L, M, X, C) ==
    \/ \E u \in U : Construir(i, u)
    \/ Descartar(i)
    \/ \E d \in Descripciones, m \in M, c \in C, t \in Fechas :
           Len(gastos[i]) < L /\ Agregar(i, d, m, c, t)
    \/ \E j \in -1..L : Eliminar(i, j)
    \/ Total(i)
    \/ \E d \in Descripciones, x \in X, c \in C, t \in Fechas :
           Len(gastos[i]) < L /\ EnviarFormulario(i, d, x, c, t)
    \/ \E c \in {"Todas"} \cup C, j \in 0..(L - 1) : PulsarEliminar(i, c, j)

\* One script run at a time: a single GestorGastos instance is alive.
Init == InitLedger({"alice"})

Next == Paso(1, {"alice"}, MaxLen, Montos, MontoTextos, Categorias)

Spec == Init /\ [][Next]_vars

\* Two sessions of the same user: two GestorGastos instances alive at once.
NextConcurrente ==
    \E i \in Instancias :
        Paso(i, {"alice"}, MaxLenConcurrente, {Fin(350)}, {"3.50", "abc"}, {"Comida"})

SpecConcurrente == Init /\ [][NextConcurrente]_vars

\* ------------------------------------------------------------- properties
\* The file of the instance that made the last call.
ArchivoDe(i) == archivos[archivo_datos(usuario[i])]

\* The records a file holds, field by field; none when it holds no records.
Persistidos(f) == IF f.kind = "records" THEN f.datos ELSE <<>>

MismosCampos(j, g) ==
    /\ j.descripcion = g.descripcion
    /\ JsonNumLoad(j.monto) = g.monto
    /\ j.categoria = g.categoria
    /\ j.fecha = g.fecha

\* s without its element at position p (1-based).
SinPosicion(s, p) == SubSeq(s, 1, p - 1) \o SubSeq(s, p + 1, Len(s))

\* Position in gs (1-based) of row fila (0-based) of the view filtered by cat.
PosicionDeFila(gs, cat, fila) ==
    CHOOSE p \in 1..Len(gs) :
        /\ cat = "Todas" \/ gs[p].categoria = cat
        /\ Cardinality({q \in 1..p : cat = "Todas" \/ gs[q].categoria = cat}) = fila + 1

RECURSIVE SumaBag(_)
\* The sum of the amounts of a bag, each counted as often as it occurs.
SumaBag(B) ==
    IF BagToSet(B) = {} THEN Fin(0)
    ELSE LET e == CHOOSE x \in BagToSet(B) : TRUE
         IN FloatAdd(e, SumaBag(B (-) SetToBag({e})))

OpsLedger == {"agregar", "eliminar", "formulario", "boton"}

\* An amount strictly greater than 0 (false of nan, as every comparison is).
FloatGt0(m) == (m.k = "fin" /\ m.v > 0) \/ m.k = "inf"

\* C1: validar_usuario(u, p) is true exactly when u has been registered and p
\* is the password of the first registration of u, in every state reached by
\* registrations and logins from the empty store.
C1_LoginIffFirstPassword ==
    /\ \A u \in Users, p \in Passwords :
           validar_usuario(usuariosJson, u, p) <=> (primeraClave[u] = p)
    /\ last.op = "validar" => (last.ok <=> (primeraClave[last.usr] = last.pwd))

\* C1 witness: a login succeeds for a user after another registration for
\* that user, with a different password, was attempted.
C1_Witness ==
    /\ last.op = "validar" /\ last.ok
    /\ \E u \in Users \ {last.usr} : primeraClave[u] # ""

\* C2: registrar_usuario returns false for a present key and then leaves the
\* stored mapping as it was and writes nothing; it returns true for an absent
\* key and then the mapping is the old one plus u -> p.
C2_RegistrarContract ==
    [][last'.op = "registrar" =>
          LET u == last'.usr
              antes == cargar_usuarios(usuariosJson)
              despues == cargar_usuarios(usuariosJson')
          IN IF u \in DOMAIN antes
             THEN ~last'.ok /\ ~last'.wrote /\ usuariosJson' = usuariosJson
             ELSE /\ last'.ok
                  /\ usuariosJson'.kind = "map"
                  /\ DOMAIN despues = (DOMAIN antes) \cup {u}
                  /\ despues[u] = last'.pwd
                  /\ \A x \in DOMAIN antes : despues[x] = antes[x]]_vars

\* C2 witness: a registration of a present username with another password
\* has just been refused.
C2_Witness ==
    /\ last.op = "registrar" /\ ~last.ok
    /\ usuariosJson.kind = "map"
    /\ usuariosJson.m[last.usr] # last.pwd

\* C3: after every agregar_gasto or eliminar_gasto call of the single
\* instance, the persisted records equal self.gastos in length, order and
\* fields, and a fresh load of the file yields the same sequence.
C3_PersistedEqualsMemory ==
    (last.op \in OpsLedger) =>
        LET gs == gastos[last.inst]
            ps == Persistidos(ArchivoDe(last.inst))
        IN /\ Len(ps) = Len(gs)
           /\ \A j \in 1..Len(gs) : MismosCampos(ps[j], gs[j])
           /\ cargar_datos(ArchivoDe(last.inst)).gastos = gs

\* C3 witness: a removal has just been persisted, two records remain, one of
\* them with amount nan.
C3_Witness ==
    /\ last.op = "eliminar" /\ last.wrote
    /\ Len(gastos[1]) = 2
    /\ \E j \in 1..2 : gastos[1][j].monto = NaN

\* C4: eliminar_gasto(i) with 0 <= i < n leaves the n-1 other records, those
\* before i in place and those after i one position down, and persists them.
C4_RemoveInRange ==
    [][(last'.op = "eliminar" /\ 0 <= last'.idx /\ last'.idx < Len(gastos[last'.inst])) =>
          LET i == last'.inst
              k == last'.idx
              antes == gastos[i]
              despues == gastos'[i]
          IN /\ Len(despues) = Len(antes) - 1
             /\ \A j \in 1..k : despues[j] = antes[j]
             /\ \A j \in (k + 1)..(Len(antes) - 1) : despues[j] = antes[j + 1]
             /\ last'.wrote
             /\ archivos'[archivo_datos(usuario[i])].kind = "records"
             /\ cargar_datos(archivos'[archivo_datos(usuario[i])]).gastos = despues]_vars

\* C4 witness: the middle record of a ledger of three has been removed.
C4_Witness ==
    /\ last.op = "eliminar" /\ last.n = 3 /\ last.idx = 1
    /\ Len(gastos[1]) = 2
    /\ gastos[1][1] # gastos[1][2]

\* C5: eliminar_gasto(i) with i < 0 or i >= n raises nothing, leaves
\* self.gastos as it was and does not write the file.
C5_RemoveOutOfRange ==
    [][(last'.op = "eliminar"
          /\ (last'.idx < 0 \/ last'.idx >= Len(gastos[last'.inst]))) =>
          /\ ~last'.raised
          /\ ~last'.wrote
          /\ gastos' = gastos
          /\ archivos' = archivos]_vars

\* C5 witness: eliminar_gasto(-1) has been called on a ledger of two records.
C5_Witness ==
    /\ last.op = "eliminar" /\ last.idx = -1 /\ last.n = 2
    /\ Len(gastos[1]) = 2

\* C6: a submitted amount that is not a number or not greater than 0 is
\* rejected (nothing appended, nothing written), so every record the form adds
\* has an amount greater than 0.
C6_InvalidAmountRejected ==
    (last.op = "formulario") =>
        LET pf == ParseFloat(last.texto)
            gs == gastos[last.inst]
        IN /\ (~pf.ok \/ ~FloatGt0(pf.val)) => (~last.wrote /\ Len(gs) = last.n)
           /\ last.wrote => FloatGt0(gs[Len(gs)].monto)

\* C7: constructing a GestorGastos raises nothing and writes nothing, and the
\* ledger starts empty when the file is absent or not readable as records.
C7_ConstructNeverFails ==
    [][last'.op = "construir" =>
          LET i == last'.inst
              f == archivos[archivo_datos(last'.usr)]
          IN /\ ~last'.raised
             /\ usuario'[i] = last'.usr
             /\ archivos' = archivos
             /\ (f.kind # "records") => gastos'[i] = <<>>]_vars

\* C7 witness: an instance has been constructed over a file json.load rejects.
C7_Witness ==
    /\ last.op = "construir"
    /\ usuario[1] = last.usr
    /\ ArchivoDe(1).kind = "unparseable"
    /\ gastos[1] = <<>>

\* C8: total() is the sum of the amounts of the records loaded or added and
\* not since removed, 0 for an empty ledger, and changes nothing.
C8_TotalIsSum ==
    [][last'.op = "total" =>
          LET i == last'.inst
          IN /\ last'.tot = SumaBag(vivos[i])
             /\ (gastos[i] = <<>>) => last'.tot = Fin(0)
             /\ gastos' = gastos
             /\ archivos' = archivos]_vars

\* C8 witness: total() has returned 7.00 for a ledger of two records.
C8_Witness ==
    /\ last.op = "total" /\ last.n = 2
    /\ last.tot = Fin(700)

\* C9: with two instances of one user alive, every mutating call leaves the
\* file equal to the caller's own sequence, whatever the other instance had
\* persisted.
C9_LastWriterWins ==
    (last.op \in OpsLedger /\ last.wrote) =>
        /\ ArchivoDe(last.inst).kind = "records"
        /\ cargar_datos(ArchivoDe(last.inst)).gastos = gastos[last.inst]

\* C9 witness (the lost update): the write of one instance has dropped from
\* the file a record the other instance had persisted and still holds.
C9_Witness ==
    /\ last.op = "agregar" /\ last.perdio
    /\ usuario[1] = usuario[2]
    /\ \E i \in Instancias \ {last.inst} :
           \E j \in 1..Len(gastos[i]) :
               \A h \in 1..Len(Persistidos(ArchivoDe(i))) :
                   ~MismosCampos(Persistidos(ArchivoDe(i))[h], gastos[i][j])

\* C10: pressing "Eliminar fila" on the view filtered by a category removes
\* from the ledger the record at the position of that row of the view, and
\* no other.
C10_ButtonRemovesShownRow ==
    [][last'.op = "boton" =>
          LET i == last'.inst
          IN gastos'[i] =
                 SinPosicion(gastos[i], PosicionDeFila(gastos[i], last'.filtro, last'.idx))]_vars

\* C10 witness: on a ledger of three, the second row of the view filtered by
\* "Otros" was the third record; it is gone and the first two remain.
C10_Witness ==
    /\ last.op = "boton" /\ last.filtro = "Otros" /\ last.idx = 1 /\ last.n = 3
    /\ Len(gastos[1]) = 2
    /\ gastos[1][1].categoria = "Comida"
    /\ gastos[1][2].categoria = "Otros"

=============================================================================
